---- MODULE Spec2Model ----
(***************************************************************************)
(* pokegrid-solver: the grid solver (solver.py), the ranking strategy      *)
(* (strategy.py) and the type predicates of the constraint engine          *)
(* (constraints.py), evaluated against a data source whose type resources  *)
(* are part of the state.                                                  *)
(*                                                                         *)
(* Spec        a solver session: construct, suggest, choose                *)
(* SpecEffect  PokemonResistantToType / WeakToType / NeutralToType alone   *)
(* SpecMono    PokemonIsMonotype / PokemonIsDualType alone                 *)
(* SpecEvo     the evolution-role sets of PokeAPIConstants                 *)
(* SpecStats   PokeAPIConstants.highest_base_stats                         *)
(* SpecCache   one sequential caller of PokeAPIConstants, two handles      *)
(* SpecRace    two coroutines that await the same PokeAPIConstants facts   *)
(* SpecOracle  a solver whose strategy is a scoring oracle                 *)
(* SpecDriver  one pass of the experiment driver over the nine cells       *)
(*                                                                         *)
(* The data source answers every lookup of a name it knows and fails the   *)
(* lookup of a name it does not know; the types named by a relation list   *)
(* and by the type roster are types it knows.                              *)
(***************************************************************************)
EXTENDS Integers, Sequences, FiniteSets, TLC

(* ------------------------------------------------------------------ *)
(* Bounds of the model                                                 *)
(* ------------------------------------------------------------------ *)

\* scores drawn by rng.random() are discretised to the ticks 0..MaxScore
MaxScore == 1
\* top_n ranges over 0..MaxTopN
MaxTopN == 1
\* constraint lists handed to the constructor have 2..MaxLists entries
MaxLists == 4
\* the first evolution chain of the data source has 1..MaxNodes nodes
MaxNodes == 3
\* a base stat of the first species is one of 1..MaxStat
MaxStat == 2
\* a scoring oracle answers with a list of 0..MaxOracleLen items
MaxOracleLen == 2

\* the species of the catalog, in Python's string order
NameOrder == <<"a", "b", "c", "d", "z">>
\* species of the data source in a solver session
Entities == {"a", "b", "c", "d"}
\* species of the data source when the type predicates are studied alone
TypeEntities == {"a", "b", "c"}
\* names that may be passed to choose_pokemon ("z" is no species at all)
ChooseNames == {"b", "z"}
\* the type labels of the data source in a solver session
Types == {"t1", "t2"}
\* the type labels of the data source when the type predicates are studied alone
PredicateTypes == {"t1", "t2", "t3"}
\* the attacking type whose relation lists vary when effectiveness is studied
AttackType == "t1"
\* a type name the data source does not know
UnknownType == "bogus"
\* the one client handle of a session
Client == "client1"

VARIABLES
    type_roster,         \* data source: names listed by the "type" endpoint
    type_pokemon,        \* data source: type name -> names in get_type(t).pokemon
    damage_relations,    \* data source: attacking type -> its three relation lists
    instance,            \* PokeAPIConstants._instance (client, _pokemon_types)
    constructed,         \* a PokegridSolver object exists
    row_constraints,     \* PokegridSolver.row_constraints
    column_constraints,  \* PokegridSolver.column_constraints
    strategy,            \* PokegridSolver.strategy (class name)
    selected_pokemon,    \* PokegridSolver.selected_pokemon
    last,                \* outcome of the most recent solver operation
    chosen_log,          \* history: every name passed to choose_pokemon so far
    returned,            \* predicate class -> outcome of its latest evaluation
    world,               \* data source: client handle -> the resources it serves
    fields,              \* PokeAPIConstants._instance: the other cache fields
    access,              \* outcome of the most recent call on PokeAPIConstants
    tasks,               \* coroutine -> its position inside a cache accessor
    write_log,           \* history: every assignment to a cache field so far
    run,                 \* entrypoint: its position, its cell and its results list
    log_file             \* the lines of the experiment log at log_path

vars == <<type_roster, type_pokemon, damage_relations, instance, constructed,
          row_constraints, column_constraints, strategy, selected_pokemon,
          last, chosen_log, returned, world, fields, access, tasks, write_log,
          run, log_file>>

cacheVars == <<world, fields, access, tasks, write_log>>

dataVars == <<type_roster, type_pokemon, damage_relations>>
driverVars == <<run, log_file>>
\* the solver together with the driver that owns it
sessionVars == <<constructed, row_constraints, column_constraints, strategy,
                 selected_pokemon, last, chosen_log>>

solverVars == <<constructed, row_constraints, column_constraints, strategy,
                selected_pokemon, last, chosen_log, run, log_file>>

(* ------------------------------------------------------------------ *)
(* Python helpers                                                      *)
(* ------------------------------------------------------------------ *)

Rank(n) == CHOOSE i \in 1..Len(NameOrder) : NameOrder[i] = n

\* str.__lt__ on the names of the model
NameLess(x, y) == Rank(x) < Rank(y)

RECURSIVE SortedNames(_)
\* sorted(available_pokemon): the names in ascending order
SortedNames(S) ==
    IF S = {} THEN <<>>
    ELSE LET m == CHOOSE x \in S : \A y \in S : x = y \/ NameLess(x, y)
         IN <<m>> \o SortedNames(S \ {m})

\* mutant: the slice keeps the whole list
SliceTo_WholeList(seq, n) == seq

\* seq[:n] (Python slice with a possibly negative stop)
SliceTo(seq, n) ==
    LET stop == IF n < 0 THEN (IF Len(seq) + n < 0 THEN 0 ELSE Len(seq) + n)
                ELSE (IF n > Len(seq) THEN Len(seq) ELSE n)
    IN SubSeq(seq, 1, stop)

\* list[i] for a Python index: negative indices count from the end
PyIndexOk(seq, i) == /\ i < Len(seq)
                     /\ i >= 0 - Len(seq)
PyIndex(seq, i) == IF i >= 0 THEN seq[i + 1] ELSE seq[Len(seq) + i + 1]

RECURSIVE Pow2(_)
\* 2.0 ** n for a count n
Pow2(n) == IF n = 0 THEN 1 ELSE 2 * Pow2(n - 1)

(* ------------------------------------------------------------------ *)
(* Data source (aiopoke client): type resources                        *)
(* ------------------------------------------------------------------ *)

\* awaiting a fetch either fails or yields a value
Fail == [ok |-> FALSE, set |-> {}]
Ok(S) == [ok |-> TRUE, set |-> S]

\* a Counter over a list of per-type sets: in how many of the sets p occurs
CountIn(ts, p) == Cardinality({t \in ts : p \in type_pokemon[t]})

\* the names occurring in the per-type sets of the types ts
UnionOf(ts) == UNION {type_pokemon[t] : t \in ts}

(* ------------------------------------------------------------------ *)
(* PokeAPIConstants: the singleton and its cached type roster           *)
(* ------------------------------------------------------------------ *)

NoInstance == [created |-> FALSE, client |-> "None",
               pokemon_types |-> [cached |-> FALSE, value |-> {}]]

\* mutant: rebinding starts the instance afresh
GetInstance_ForgetsRoster(inst, client) ==
    [created |-> TRUE, client |-> client,
     pokemon_types |-> [cached |-> FALSE, value |-> {}]]

\* mutant: an existing instance keeps the client it was created with
GetInstance_NoRebind(inst, client) ==
    IF ~inst.created
    THEN [created |-> TRUE, client |-> client,
          pokemon_types |-> [cached |-> FALSE, value |-> {}]]
    ELSE inst

\* PokeAPIConstants.get_instance(client)
GetInstance(inst, client) ==
    IF ~inst.created
    THEN [created |-> TRUE, client |-> client,
          pokemon_types |-> [cached |-> FALSE, value |-> {}]]
    ELSE [inst EXCEPT !.client = client]

\* value of the pokemon_types property
PokemonTypes(inst) ==
    IF inst.pokemon_types.cached THEN inst.pokemon_types.value ELSE type_roster

\* the singleton after the pokemon_types property was awaited
PokemonTypesCached(inst) ==
    IF inst.pokemon_types.cached THEN inst
    ELSE [inst EXCEPT !.pokemon_types = [cached |-> TRUE, value |-> type_roster]]

(* ------------------------------------------------------------------ *)
(* Data source: what a client handle serves besides the type resources *)
(* ------------------------------------------------------------------ *)

\* a second client handle (a later pytest fixture, a second session)
OtherClient == "client2"
Handles == {Client, OtherClient}

\* a handle that serves nothing
EmptyWorld == [pokemon |-> <<>>, species |-> <<>>, chains |-> <<>>]

\* one request as the data source sees it
Request(client, endpoint) == [client |-> client, endpoint |-> endpoint]

\* what may go wrong while a computation fetches: nothing, its list request,
\* or one of the per-item requests it gathers
Failures == {"none", "list", "item"}

\* mutant: nothing is fetched per entry
FanOut_ListOnly(client, list_endpoint, item_endpoint, n, fail) ==
    <<Request(client, list_endpoint)>>

\* the requests of a list fetch followed by a gather over its n entries; the
\* gather issues every per-item request before any of them is awaited
FanOut(client, list_endpoint, item_endpoint, n, fail) ==
    IF fail = "list" THEN <<Request(client, list_endpoint)>>
    ELSE <<Request(client, list_endpoint)>>
         \o [i \in 1..n |-> Request(client, item_endpoint)]

(* ------------------------------------------------------------------ *)
(* PokeAPIConstants: the facts it derives and caches                   *)
(* ------------------------------------------------------------------ *)

\* a cache field holding None
NoneField(empty) == [cached |-> FALSE, value |-> empty]
\* a cache field holding a value
Holding(v) == [cached |-> TRUE, value |-> v]

\* the cache fields after __init__, the type roster (kept in instance) aside
NoFields ==
    [all_pokemon |-> NoneField(<<>>), legendaries |-> NoneField(<<>>),
     mythicals |-> NoneField(<<>>), first_evolutions |-> NoneField({}),
     middle_evolutions |-> NoneField({}), final_evolutions |-> NoneField({}),
     no_evolutions |-> NoneField({}), weights |-> NoneField(<<>>),
     heights |-> NoneField(<<>>)]

\* the nodes of an evolution chain are numbered from the root, node 1; node i
\* has the species name[i] and, the root aside, the parent parent[i] < i
Children(evo_chain, node) ==
    SelectSeq([j \in 1..Len(evo_chain.parent) |-> j],
              LAMBDA j : evo_chain.parent[j] = node)

RECURSIVE CollectPaths(_, _, _)
RECURSIVE CollectPathsOfChildren(_, _, _)
\* the for loop of _collect_paths over node.evolves_to
CollectPathsOfChildren(evo_chain, children, cur) ==
    IF children = <<>> THEN <<>>
    ELSE CollectPaths(evo_chain, Head(children), cur)
         \o CollectPathsOfChildren(evo_chain, Tail(children), cur)

\* _collect_paths(node, cur, out): the paths it appends to out
CollectPaths(evo_chain, node, cur) ==
    LET name == evo_chain.name[node]
        children == Children(evo_chain, node)
    IN IF children = <<>> THEN << cur \o <<name>> >>
       ELSE CollectPathsOfChildren(evo_chain, children, cur \o <<name>>)

\* mutant: p[1:], the last element included
Interior_ToEnd(p) == {p[k] : k \in 2..Len(p)}

\* p[1:-1] as a set
Interior(p) == {p[k] : k \in 2..(Len(p) - 1)}

\* mutant: a single-species chain is classified like any other chain
EvolutionRoles_NoSpecialCase(evo_chain) ==
    LET paths == CollectPaths(evo_chain, 1, <<>>)
    IN [first |-> {paths[i][1] : i \in DOMAIN paths},
        middle |-> UNION {Interior(paths[i]) : i \in {j \in DOMAIN paths : Len(paths[j]) > 2}},
        final |-> {paths[i][Len(paths[i])] : i \in DOMAIN paths},
        no_evolutions |-> {}]

\* mutant: only the first path contributes its last element
EvolutionRoles_FirstPathOnly(evo_chain) ==
    LET paths == CollectPaths(evo_chain, 1, <<>>)
    IN IF Len(paths) = 1 /\ Len(paths[1]) = 1
       THEN [first |-> {}, middle |-> {}, final |-> {},
             no_evolutions |-> {paths[1][1]}]
       ELSE [first |-> {paths[i][1] : i \in DOMAIN paths},
             middle |-> UNION {Interior(paths[i]) : i \in {j \in DOMAIN paths : Len(paths[j]) > 2}},
             final |-> {paths[1][Len(paths[1])]},
             no_evolutions |-> {}]

\* evolution_roles(evo_chain)
EvolutionRoles(evo_chain) ==
    LET paths == CollectPaths(evo_chain, 1, <<>>)
    IN IF Len(paths) = 1 /\ Len(paths[1]) = 1
       THEN [first |-> {}, middle |-> {}, final |-> {},
             no_evolutions |-> {paths[1][1]}]
       ELSE [first |-> {paths[i][1] : i \in DOMAIN paths},
             middle |-> UNION {Interior(paths[i]) : i \in {j \in DOMAIN paths : Len(paths[j]) > 2}},
             final |-> {paths[i][Len(paths[i])] : i \in DOMAIN paths},
             no_evolutions |-> {}]

\* the four unions _classify_evolution_roles accumulates over the chains
ClassifyEvolutionRoles(chains) ==
    [first_all |-> UNION {EvolutionRoles(chains[i]).first : i \in DOMAIN chains},
     middle_all |-> UNION {EvolutionRoles(chains[i]).middle : i \in DOMAIN chains},
     final_all |-> UNION {EvolutionRoles(chains[i]).final : i \in DOMAIN chains},
     no_evolutions_all |->
         UNION {EvolutionRoles(chains[i]).no_evolutions : i \in DOMAIN chains}]

\* the accessors of PokeAPIConstants that test a cache field against None
EvolutionFacts == {"first_evolutions", "middle_evolutions", "final_evolutions",
                   "no_evolutions"}
SpeciesFacts == {"legendary_pokemon", "mythical_pokemon"}
TableFacts == {"gather_heights", "gather_weights"}
Facts == {"pokemon_types", "all_pokemon"} \cup EvolutionFacts \cup SpeciesFacts
         \cup TableFacts

\* the cache field an accessor tests and returns
FieldOf(fact) ==
    CASE fact = "legendary_pokemon" -> "legendaries"
      [] fact = "mythical_pokemon" -> "mythicals"
      [] fact = "gather_heights" -> "heights"
      [] fact = "gather_weights" -> "weights"
      [] OTHER -> fact

\* that field of the singleton
Field(inst, flds, fact) ==
    IF fact = "pokemon_types" THEN inst.pokemon_types ELSE flds[FieldOf(fact)]

\* the resource list an accessor fetches first
ListEndpoint(fact) ==
    CASE fact = "pokemon_types" -> "type"
      [] fact \in EvolutionFacts -> "evolution-chain"
      [] fact \in SpeciesFacts -> "pokemon-species"
      [] OTHER -> "pokemon"

\* the resource it then fetches once per entry of the list
ItemEndpoint(fact) ==
    CASE fact \in EvolutionFacts -> "evolution-chain/id"
      [] fact \in SpeciesFacts -> "pokemon-species/id"
      [] OTHER -> "pokemon/id"

\* how many entries it gathers from the resources w of the bound handle
ItemCount(fact, w) ==
    CASE fact \in EvolutionFacts -> Len(w.chains)
      [] fact \in SpeciesFacts -> Len(w.species)
      [] fact \in TableFacts -> Len(w.pokemon)
      [] OTHER -> 0

\* the names of a list of resources
ResourceNames(resources) == [i \in DOMAIN resources |-> resources[i].name]

\* the assignments that end _classify_evolution_roles
Classified(flds, w) ==
    LET roles == ClassifyEvolutionRoles(w.chains)
    IN [flds EXCEPT !.first_evolutions = Holding(roles.first_all),
                    !.middle_evolutions = Holding(roles.middle_all),
                    !.final_evolutions = Holding(roles.final_all),
                    !.no_evolutions = Holding(roles.no_evolutions_all)]

\* the assignments that end _gather_legendaries_and_mythicals
GatheredLegendariesAndMythicals(flds, w) ==
    [flds EXCEPT
        !.legendaries = Holding(ResourceNames(
                            SelectSeq(w.species, LAMBDA sp : sp.is_legendary))),
        !.mythicals = Holding(ResourceNames(
                            SelectSeq(w.species, LAMBDA sp : sp.is_mythical)))]

\* the assignment that ends gather_heights
GatheredHeights(flds, w) ==
    [flds EXCEPT !.heights = Holding([i \in DOMAIN w.pokemon |->
                                <<w.pokemon[i].name, w.pokemon[i].height>>])]

\* the assignment that ends gather_weights
GatheredWeights(flds, w) ==
    [flds EXCEPT !.weights = Holding([i \in DOMAIN w.pokemon |->
                                <<w.pokemon[i].name, w.pokemon[i].weight>>])]

\* the assignment of the all_pokemon property
AllPokemonFetched(flds, w) ==
    [flds EXCEPT !.all_pokemon = Holding(ResourceNames(w.pokemon))]

\* the cache fields after the computation behind accessor `fact` has fetched
\* everything from the resources w
Computed(fact, flds, w) ==
    CASE fact \in EvolutionFacts -> Classified(flds, w)
      [] fact \in SpeciesFacts -> GatheredLegendariesAndMythicals(flds, w)
      [] fact = "gather_heights" -> GatheredHeights(flds, w)
      [] fact = "gather_weights" -> GatheredWeights(flds, w)
      [] fact = "all_pokemon" -> AllPokemonFetched(flds, w)
      [] OTHER -> flds

\* mutant: the accessor never finds its field set
CacheHit_Never(field) == FALSE

\* `self._x is not None`
CacheHit(field) == field.cached

\* mutant: what was derived before a request failed is stored all the same
Await_StoresOnFailure(fact, inst, flds, fail) ==
    LET w == world[inst.client]
        field == Field(inst, flds, fact)
        requests == FanOut(inst.client, ListEndpoint(fact), ItemEndpoint(fact),
                           ItemCount(fact, w), fail)
        inst1 == IF fact = "pokemon_types" THEN PokemonTypesCached(inst) ELSE inst
        flds1 == Computed(fact, flds, w)
    IN IF CacheHit(field)
       THEN [hit |-> TRUE, ok |-> TRUE, requests |-> <<>>,
             value |-> field.value, instance |-> inst, fields |-> flds]
       ELSE [hit |-> FALSE, ok |-> (fail = "none"), requests |-> requests,
             value |-> Field(inst1, flds1, fact).value,
             instance |-> inst1, fields |-> flds1]

\* awaiting accessor `fact` of the singleton to its end while no other
\* coroutine runs; `fail` says which of its requests, if any, raises
Await(fact, inst, flds, fail) ==
    LET w == world[inst.client]
        field == Field(inst, flds, fact)
        requests == FanOut(inst.client, ListEndpoint(fact), ItemEndpoint(fact),
                           ItemCount(fact, w), fail)
        inst1 == IF fact = "pokemon_types" THEN PokemonTypesCached(inst) ELSE inst
        flds1 == Computed(fact, flds, w)
    IN IF CacheHit(field)
       THEN [hit |-> TRUE, ok |-> TRUE, requests |-> <<>>,
             value |-> field.value, instance |-> inst, fields |-> flds]
       ELSE IF fail # "none"
       THEN [hit |-> FALSE, ok |-> FALSE, requests |-> requests,
             value |-> field.value, instance |-> inst, fields |-> flds]
       ELSE [hit |-> FALSE, ok |-> TRUE, requests |-> requests,
             value |-> Field(inst1, flds1, fact).value,
             instance |-> inst1, fields |-> flds1]

\* the failures that can befall accessor `fact` of the singleton
CanFail(fact, inst, flds, fail) ==
    \/ fail = "none"
    \/ /\ ~CacheHit(Field(inst, flds, fact))
       /\ fail = "item" => ItemCount(fact, world[inst.client]) > 0

NoAccess == [op |-> "none", fact |-> "None", client |-> "None", hit |-> FALSE,
             ok |-> TRUE, requests |-> <<>>, value |-> {}, again |-> FALSE]

\* the coroutines of a session that await the cache concurrently
Tasks == {"A", "B"}
IdleTask == [pc |-> "idle", fact |-> "None", hit |-> FALSE, requests |-> <<>>,
             value |-> <<>>]

\* PokeAPIConstants is not in use
CacheIdle ==
    /\ world = [h \in Handles |-> EmptyWorld]
    /\ fields = NoFields
    /\ access = NoAccess
    /\ tasks = [t \in Tasks |-> IdleTask]
    /\ write_log = <<>>

\* STAT_NAME_TO_INDICES: the stat names in the order of their indices
StatNames == <<"hp", "attack", "defense", "special-attack", "special-defense",
               "speed">>
StatIndex(stat_name) == CHOOSE i \in DOMAIN StatNames : StatNames[i] = stat_name

\* mutant: a tie with another stat does not disqualify
IsHighest_TiesQualify(species, stat_name) ==
    LET stat_to_beat == species.stats[StatIndex(stat_name)].base_stat
    IN \A k \in DOMAIN species.stats :
          \/ species.stats[k].name = stat_name
          \/ ~(species.stats[k].base_stat > stat_to_beat)

\* is_highest after the inner loop of highest_base_stats over species.stats
IsHighest(species, stat_name) ==
    LET stat_to_beat == species.stats[StatIndex(stat_name)].base_stat
    IN \A k \in DOMAIN species.stats :
          \/ species.stats[k].name = stat_name
          \/ ~(\/ species.stats[k].base_stat > stat_to_beat
               \/ species.stats[k].base_stat = stat_to_beat)

\* pkmn_names at the end of highest_base_stats
HighestBaseStats(species_data, stat_name) ==
    ResourceNames(SelectSeq(species_data, LAMBDA sp : IsHighest(sp, stat_name)))

\* constants = await PokeAPIConstants.get_instance(client), then
\* await constants.highest_base_stats(stat_name)
CallHighestBaseStats(stat_name, client, fail) ==
    LET inst == GetInstance(instance, client)
        w == world[client]
        call == [NoAccess EXCEPT
                    !.op = "highest_base_stats", !.fact = stat_name,
                    !.client = client, !.value = <<>>,
                    !.again = /\ access.op = "highest_base_stats"
                              /\ access.fact = stat_name
                              /\ access.ok]
    IN /\ fail = "item" => Len(w.pokemon) > 0
       /\ instance' = inst
       /\ IF stat_name \notin {StatNames[i] : i \in DOMAIN StatNames}
          THEN \* KeyError, before anything is fetched
               /\ fail = "none"
               /\ access' = [call EXCEPT !.ok = FALSE]
          ELSE access' =
                 [call EXCEPT
                    !.ok = (fail = "none"),
                    !.requests = FanOut(client, "pokemon", "pokemon/id",
                                        Len(w.pokemon), fail),
                    !.value = IF fail = "none"
                              THEN HighestBaseStats(w.pokemon, stat_name)
                              ELSE <<>>]
       /\ UNCHANGED <<dataVars, solverVars, returned, world, fields, tasks, write_log>>

\* constants = await PokeAPIConstants.get_instance(client)
CallGetInstance(client) ==
    /\ instance' = GetInstance(instance, client)
    /\ access' = [NoAccess EXCEPT !.op = "get_instance", !.client = client]
    /\ UNCHANGED <<dataVars, solverVars, returned, world, fields, tasks, write_log>>

\* await constants.<fact> (await constants.gather_heights(), ...) on the
\* singleton obtained earlier
AccessFact(fact, fail) ==
    /\ instance.created
    /\ CanFail(fact, instance, fields, fail)
    /\ LET r == Await(fact, instance, fields, fail)
       IN /\ instance' = r.instance
          /\ fields' = r.fields
          /\ access' = [op |-> "await", fact |-> fact, client |-> instance.client,
                        hit |-> r.hit, ok |-> r.ok, requests |-> r.requests,
                        value |-> r.value, again |-> FALSE]
    /\ UNCHANGED <<dataVars, solverVars, returned, world, tasks, write_log>>

\* the property each evolution-line predicate awaits
EvolutionLineFact(kind) ==
    CASE kind = "PokemonFirstEvolutionLine" -> "first_evolutions"
      [] kind = "PokemonMiddleEvolutionLine" -> "middle_evolutions"
      [] kind = "PokemonFinalEvolutionLine" -> "final_evolutions"
      [] kind = "PokemonNoEvolutionLine" -> "no_evolutions"

EvolutionLineClasses == {"PokemonFirstEvolutionLine", "PokemonMiddleEvolutionLine",
                         "PokemonFinalEvolutionLine", "PokemonNoEvolutionLine"}

\* Pokemon<Role>EvolutionLine().determine_pkmn_set(client)
DetermineEvolutionLine(kind, client, fail) ==
    LET inst == GetInstance(instance, client)
        fact == EvolutionLineFact(kind)
    IN /\ CanFail(fact, inst, fields, fail)
       /\ LET r == Await(fact, inst, fields, fail)
          IN /\ instance' = r.instance
             /\ fields' = r.fields
             /\ access' = [op |-> kind, fact |-> fact, client |-> client,
                           hit |-> r.hit, ok |-> r.ok, requests |-> r.requests,
                           value |-> r.value, again |-> FALSE]
       /\ UNCHANGED <<dataVars, solverVars, returned, world, tasks, write_log>>

(* ------------------------------------------------------------------ *)
(* Constraint engine: the type predicates                              *)
(* ------------------------------------------------------------------ *)

NoFilter == "None"

\* PokemonHasType(type_constraint).determine_pkmn_set
PokemonHasType(type_constraint) ==
    IF type_constraint \in DOMAIN type_pokemon
    THEN Ok(type_pokemon[type_constraint])
    ELSE Fail

\* PokemonIsMonotype._get_all_pokemon_type_set succeeds
AllTypeSetsOk(roster) == roster \subseteq DOMAIN type_pokemon

\* PokemonIsMonotype(filter).determine_pkmn_set, with the roster it was given
PokemonIsMonotype(filter, roster) ==
    IF ~AllTypeSetsOk(roster) THEN Fail
    ELSE LET monotypes == {p \in UnionOf(roster) : CountIn(roster, p) = 1}
         IN IF filter = NoFilter THEN Ok(monotypes)
            ELSE LET subset == PokemonHasType(filter)
                 IN IF ~subset.ok THEN Fail
                    ELSE Ok(monotypes \cap subset.set)

\* mutant: a species counts as dual-typed from its first type on
PokemonIsDualType_AtLeastOne(filter, roster) ==
    IF ~AllTypeSetsOk(roster) THEN Fail
    ELSE LET dualtypes == {p \in UnionOf(roster) : CountIn(roster, p) >= 1}
         IN IF filter = NoFilter THEN Ok(dualtypes)
            ELSE LET subset == PokemonHasType(filter)
                 IN IF ~subset.ok THEN Fail
                    ELSE Ok(dualtypes \cap subset.set)

\* PokemonIsDualType(filter).determine_pkmn_set, with the roster it was given
PokemonIsDualType(filter, roster) ==
    IF ~AllTypeSetsOk(roster) THEN Fail
    ELSE LET dualtypes == {p \in UnionOf(roster) : CountIn(roster, p) >= 2}
         IN IF filter = NoFilter THEN Ok(dualtypes)
            ELSE LET subset == PokemonHasType(filter)
                 IN IF ~subset.ok THEN Fail
                    ELSE Ok(dualtypes \cap subset.set)

\* the three Counters built from the attacking type's relation lists
ImmuneCount(atk, p) == CountIn(damage_relations[atk].no_damage_to, p)
ResistCount(atk, p) == CountIn(damage_relations[atk].half_damage_to, p)
WeakCount(atk, p) == CountIn(damage_relations[atk].double_damage_to, p)

\* set(immune_counts) | set(resist_counts) | set(weak_counts)
RelationUniverse(atk) ==
    UnionOf(damage_relations[atk].no_damage_to
            \cup damage_relations[atk].half_damage_to
            \cup damage_relations[atk].double_damage_to)

\* (0.5 ** resist) * (2.0 ** weak) < 1.0, both sides scaled by 2 ** resist
ModifierBelowOne(resist, weak) == Pow2(weak) < Pow2(resist)

\* PokemonResistantToType(atk).determine_pkmn_set
PokemonResistantToType(atk) ==
    IF atk \notin DOMAIN damage_relations THEN Fail
    ELSE Ok({p \in RelationUniverse(atk) :
                \/ ImmuneCount(atk, p) > 0
                \/ ModifierBelowOne(ResistCount(atk, p), WeakCount(atk, p))})

\* mutant: an immunity does not cancel a weakness
PokemonWeakToType_IgnoresImmunity(atk) ==
    IF atk \notin DOMAIN damage_relations THEN Fail
    ELSE Ok({p \in RelationUniverse(atk) :
                WeakCount(atk, p) > ResistCount(atk, p)})

\* PokemonWeakToType(atk).determine_pkmn_set
PokemonWeakToType(atk) ==
    IF atk \notin DOMAIN damage_relations THEN Fail
    ELSE Ok({p \in RelationUniverse(atk) :
                /\ ~(ImmuneCount(atk, p) > 0)
                /\ WeakCount(atk, p) > ResistCount(atk, p)})

\* mutant: neutrality is looked for among the species of the relation lists only
PokemonNeutralToType_RelationUniverse(atk, roster) ==
    IF atk \notin DOMAIN damage_relations THEN Fail
    ELSE IF ~AllTypeSetsOk(roster) THEN Fail
    ELSE Ok({p \in RelationUniverse(atk) :
                /\ ~(ImmuneCount(atk, p) > 0)
                /\ WeakCount(atk, p) = ResistCount(atk, p)})

\* mutant: a resistance does not cancel a weakness
PokemonNeutralToType_NoCancelling(atk, roster) ==
    IF atk \notin DOMAIN damage_relations THEN Fail
    ELSE IF ~AllTypeSetsOk(roster) THEN Fail
    ELSE Ok({p \in UnionOf(roster) :
                /\ ~(ImmuneCount(atk, p) > 0)
                /\ WeakCount(atk, p) = 0
                /\ ResistCount(atk, p) = 0})

\* PokemonNeutralToType(atk).determine_pkmn_set, with the roster it was given
PokemonNeutralToType(atk, roster) ==
    IF atk \notin DOMAIN damage_relations THEN Fail
    ELSE IF ~AllTypeSetsOk(roster) THEN Fail
    ELSE Ok({p \in UnionOf(roster) :
                /\ ~(ImmuneCount(atk, p) > 0)
                /\ WeakCount(atk, p) = ResistCount(atk, p)})

\* a constraint object: its class and its constructor argument
Constraint(kind, arg) == [kind |-> kind, arg |-> arg]

\* the constraint reads the cached type roster (through get_instance)
UsesRoster(c) ==
    \/ c.kind \in {"PokemonIsMonotype", "PokemonIsDualType"}
    \/ c.kind = "PokemonNeutralToType" /\ c.arg \in DOMAIN damage_relations

\* c.determine_pkmn_set(client): the awaited result
DeterminePkmnSet(c, inst) ==
    CASE c.kind = "PokemonHasType" -> PokemonHasType(c.arg)
      [] c.kind = "PokemonIsMonotype" -> PokemonIsMonotype(c.arg, PokemonTypes(inst))
      [] c.kind = "PokemonIsDualType" -> PokemonIsDualType(c.arg, PokemonTypes(inst))
      [] c.kind = "PokemonResistantToType" -> PokemonResistantToType(c.arg)
      [] c.kind = "PokemonWeakToType" -> PokemonWeakToType(c.arg)
      [] c.kind = "PokemonNeutralToType" -> PokemonNeutralToType(c.arg, PokemonTypes(inst))

\* c.determine_pkmn_set(client): what it leaves in the PokeAPIConstants singleton
InstanceAfter(c, inst, client) ==
    IF UsesRoster(c) THEN PokemonTypesCached(GetInstance(inst, client)) ELSE inst

(* ------------------------------------------------------------------ *)
(* Ranking strategy (strategy.py)                                      *)
(* ------------------------------------------------------------------ *)

\* mutant: the score is compared ascending
KeyLess_Ascending(x, y) ==
    \/ x[2] < y[2]
    \/ x[2] = y[2] /\ NameLess(x[1], y[1])

\* the sort key (-t[1], t[0]) of x orders strictly before that of y
KeyLess(x, y) ==
    \/ 0 - x[2] < 0 - y[2]
    \/ x[2] = y[2] /\ NameLess(x[1], y[1])

RECURSIVE InsertByKey(_, _)
InsertByKey(x, seq) ==
    IF seq = <<>> THEN <<x>>
    ELSE IF KeyLess(x, Head(seq)) THEN <<x>> \o seq
    ELSE <<Head(seq)>> \o InsertByKey(x, Tail(seq))

RECURSIVE SortByKey(_)
\* ranking.sort(key=lambda t: (-t[1], t[0])): a stable sort
SortByKey(seq) ==
    IF seq = <<>> THEN <<>>
    ELSE InsertByKey(seq[Len(seq)], SortByKey(SubSeq(seq, 1, Len(seq) - 1)))

\* RandomPokegridStrategy.rank_options; score[n] is the value rng.random() drew for n
RankOptions(available_pokemon, score) ==
    LET names == SortedNames(available_pokemon)
        ranking == [i \in 1..Len(names) |-> <<names[i], score[names[i]]>>]
    IN SortByKey(ranking)

(* ------------------------------------------------------------------ *)
(* PokegridSolver (solver.py)                                          *)
(* ------------------------------------------------------------------ *)

\* mutant: only the row constraints are counted
InitRaises_RowsOnly(rows, cols) == Len(rows) # 3

\* PokegridSolver.__init__ raises ValueError
InitRaises(rows, cols) == Len(rows) # 3 \/ Len(cols) # 3

\* mutant: negative indices are let through
IndexRaises_UpperOnly(row_idx, col_idx) == row_idx > 2 \/ col_idx > 2

\* suggest_for_constraint raises ValueError for its indices
IndexRaises(row_idx, col_idx) ==
    \/ row_idx < 0 \/ row_idx > 2
    \/ col_idx < 0 \/ col_idx > 2

\* a name a scoring oracle makes up instead of one it was given
MadeUpName == "z"

\* result.output of the agent: the oracle answers with any list of at most
\* MaxOracleLen items, each a name it was given or one it made up and a score
AgentOutputs(available_pokemon) ==
    UNION {[1..n -> (available_pokemon \cup {MadeUpName}) \X (0..MaxScore)] :
              n \in 0..MaxOracleLen}

\* ChatGPTStrategy.rank_options once the agent has answered
OracleRankOptions(gpt_ranked_list) == SortByKey(gpt_ranked_list)

\* await self.strategy.rank_options(possible_pokemon): the lists it may return
RankedBy(strat, possible_pokemon) ==
    IF strat = "RandomPokegridStrategy"
    THEN {RankOptions(possible_pokemon, score) :
             score \in [possible_pokemon -> 0..MaxScore]}
    ELSE {OracleRankOptions(out) : out \in AgentOutputs(possible_pokemon)}

\* entrypoint has not been started
NoRun == [pc |-> "idle", cell |-> 0, suggestions |-> <<>>,
          possible_answers |-> 0, top_pokemon |-> "None", results |-> <<>>]
DriverIdle ==
    /\ run = NoRun
    /\ log_file = <<>>

\* mutant: the two matching sets are united
PossiblePokemon_Union(row_set, col_set, selected) == (row_set \cup col_set) \ selected

\* mutant: the chosen names are not subtracted
PossiblePokemon_NoExclusion(row_set, col_set, selected) == row_set \cap col_set

\* (row set & column set) - self.selected_pokemon
PossiblePokemon(row_set, col_set, selected) == (row_set \cap col_set) \ selected

\* mutant: the set is replaced by the new name
AddSelected_Replace(selected, name) == {name}

\* mutant: the name is not added
AddSelected_Noop(selected, name) == selected

\* self.selected_pokemon after self.selected_pokemon.add(name)
AddSelected(selected, name) == selected \cup {name}

NoOp == [op |-> "none", status |-> "ok", nrows |-> 0, ncols |-> 0,
         row |-> 0, col |-> 0, top_n |-> 0, evaluated |-> <<>>,
         strategy_called |-> FALSE, possible_pokemon |-> {}, ranked |-> <<>>,
         top |-> <<>>, count |-> 0, name |-> "None"]

\* PokegridSolver(row_constraints, column_constraints, strategy, client)
Construct(rows, cols, strat) ==
    /\ ~constructed
    /\ IF InitRaises(rows, cols)
       THEN /\ last' = [NoOp EXCEPT !.op = "init", !.status = "ValueError",
                                    !.nrows = Len(rows), !.ncols = Len(cols)]
            /\ UNCHANGED <<constructed, row_constraints, column_constraints,
                           strategy, selected_pokemon>>
       ELSE /\ constructed' = TRUE
            /\ row_constraints' = rows
            /\ column_constraints' = cols
            /\ strategy' = strat
            /\ selected_pokemon' = {}
            /\ last' = [NoOp EXCEPT !.op = "init",
                                    !.nrows = Len(rows), !.ncols = Len(cols)]
    /\ UNCHANGED <<dataVars, instance, chosen_log, returned, cacheVars>>

\* solver.suggest_for_constraint(row_idx, col_idx, top_n)
SuggestForConstraint(row_idx, col_idx, top_n) ==
    /\ constructed
    /\ LET call == [NoOp EXCEPT !.op = "suggest", !.row = row_idx,
                                !.col = col_idx, !.top_n = top_n]
       IN
       IF IndexRaises(row_idx, col_idx)
       THEN /\ last' = [call EXCEPT !.status = "ValueError"]
            /\ UNCHANGED instance
       ELSE IF ~PyIndexOk(row_constraints, row_idx)
               \/ ~PyIndexOk(column_constraints, col_idx)
       THEN /\ last' = [call EXCEPT !.status = "IndexError"]
            /\ UNCHANGED instance
       ELSE
       LET row_constraint == PyIndex(row_constraints, row_idx)
           col_constraint == PyIndex(column_constraints, col_idx)
           row_result == DeterminePkmnSet(row_constraint, instance)
           inst1 == InstanceAfter(row_constraint, instance, Client)
           col_result == DeterminePkmnSet(col_constraint, inst1)
           inst2 == InstanceAfter(col_constraint, inst1, Client)
           possible_pokemon ==
               PossiblePokemon(row_result.set, col_result.set, selected_pokemon)
       IN
       IF ~row_result.ok
       THEN /\ last' = [call EXCEPT !.status = "FetchError",
                                    !.evaluated = <<row_constraint>>]
            /\ instance' = inst1
       ELSE IF ~col_result.ok
       THEN /\ last' = [call EXCEPT !.status = "FetchError",
                                    !.evaluated = <<row_constraint, col_constraint>>]
            /\ instance' = inst2
       ELSE
       \E ranked_pokemon \in RankedBy(strategy, possible_pokemon) :
             /\ last' = [call EXCEPT
                            !.evaluated = <<row_constraint, col_constraint>>,
                            !.strategy_called = TRUE,
                            !.possible_pokemon = possible_pokemon,
                            !.ranked = ranked_pokemon,
                            !.top = SliceTo(ranked_pokemon, top_n),
                            !.count = Cardinality(possible_pokemon)]
             /\ instance' = inst2
    /\ UNCHANGED <<dataVars, constructed, row_constraints, column_constraints,
                   strategy, selected_pokemon, chosen_log, returned, cacheVars>>

\* solver.choose_pokemon(name)
ChoosePokemon(name) ==
    /\ constructed
    /\ selected_pokemon' = AddSelected(selected_pokemon, name)
    /\ chosen_log' = chosen_log \cup {name}
    /\ last' = [NoOp EXCEPT !.op = "choose", !.name = name]
    /\ UNCHANGED <<dataVars, instance, constructed, row_constraints,
                   column_constraints, strategy, returned, cacheVars>>

(* ------------------------------------------------------------------ *)
(* A solver session                                                    *)
(* ------------------------------------------------------------------ *)

\* every way of giving each of the species E at least one of the types T
Typings(E, T) ==
    {tp \in [T -> SUBSET E] : \A p \in E : \E t \in T : p \in tp[t]}

\* the types a typing gives species p
TypesIn(tp, p) == {t \in DOMAIN tp : p \in tp[t]}

NoRelations == [no_damage_to |-> {}, half_damage_to |-> {}, double_damage_to |-> {}]

NotReturned == [called |-> FALSE, param |-> "None", ok |-> FALSE, set |-> {}]

PredicateClasses == {"PokemonResistantToType", "PokemonWeakToType",
                     "PokemonNeutralToType", "PokemonIsMonotype",
                     "PokemonIsDualType"}

\* the constraint objects a driver configuration may name for the rows
RowPool == <<Constraint("PokemonHasType", "t1"),
             Constraint("PokemonIsMonotype", NoFilter),
             Constraint("PokemonIsDualType", "t1")>>

\* the constraint objects a driver configuration may name for the columns
ColPool == <<Constraint("PokemonHasType", "t2"),
             Constraint("PokemonIsDualType", NoFilter),
             Constraint("PokemonHasType", UnknownType)>>

\* a list of n constraints taken round-robin from a pool
ListOf(pool, n) == [i \in 1..n |-> pool[((i - 1) % Len(pool)) + 1]]

\* the catalogs of a solver session: "a" has the first type alone, "d" the
\* second alone, every other species any one or two of the types
SessionCatalogs ==
    {tp \in Typings(Entities, Types) :
        /\ TypesIn(tp, "a") = {"t1"}
        /\ TypesIn(tp, "d") = {"t2"}}

Init ==
    /\ type_roster = Types
    /\ type_pokemon \in SessionCatalogs
    /\ damage_relations = [t \in Types |-> NoRelations]
    /\ instance = NoInstance
    /\ constructed = FALSE
    /\ row_constraints = <<>>
    /\ column_constraints = <<>>
    /\ strategy = "None"
    /\ selected_pokemon = {}
    /\ last = NoOp
    /\ chosen_log = {}
    /\ returned = [k \in PredicateClasses |-> NotReturned]
    /\ CacheIdle
    /\ DriverIdle

Next ==
    \/ \E n \in 2..MaxLists, m \in 2..MaxLists :
          /\ Construct(ListOf(RowPool, n), ListOf(ColPool, m), "RandomPokegridStrategy")
          /\ UNCHANGED driverVars
    \/ \E row_idx \in -1..3, col_idx \in -1..3, top_n \in 0..MaxTopN :
          /\ SuggestForConstraint(row_idx, col_idx, top_n)
          /\ UNCHANGED driverVars
    \/ \E name \in ChooseNames :
          /\ ChoosePokemon(name)
          /\ UNCHANGED driverVars

Spec == Init /\ [][Next]_vars

(* ------------------------------------------------------------------ *)
(* The type predicates evaluated on their own                          *)
(* ------------------------------------------------------------------ *)

\* Kind(arg).determine_pkmn_set(client): the outcome is kept per class
Determine(kind, arg) ==
    LET c == Constraint(kind, arg)
        result == DeterminePkmnSet(c, instance)
    IN /\ returned' = [returned EXCEPT ![kind] =
                          [called |-> TRUE, param |-> arg,
                           ok |-> result.ok, set |-> result.set]]
       /\ instance' = InstanceAfter(c, instance, Client)
       /\ UNCHANGED <<dataVars, solverVars, cacheVars>>

DetermineResistant(atk) == Determine("PokemonResistantToType", atk)
DetermineWeak(atk) == Determine("PokemonWeakToType", atk)
DetermineNeutral(atk) == Determine("PokemonNeutralToType", atk)
DetermineMonotype(filter) == Determine("PokemonIsMonotype", filter)
DetermineDualType(filter) == Determine("PokemonIsDualType", filter)

\* the relation lists one attacking type may have over the types T: a
\* defending type is in at most one of them
RelationRows(T) ==
    {r \in [no_damage_to : SUBSET T, half_damage_to : SUBSET T,
            double_damage_to : SUBSET T] :
        /\ r.no_damage_to \cap r.half_damage_to = {}
        /\ r.no_damage_to \cap r.double_damage_to = {}
        /\ r.half_damage_to \cap r.double_damage_to = {}}

\* the catalogs on which type effectiveness is studied: "a" has the first
\* type alone, "c" the third alone, "b" any one, two or three of the types
EffectCatalogs ==
    {tp \in Typings(TypeEntities, PredicateTypes) :
        /\ TypesIn(tp, "a") = {"t1"}
        /\ TypesIn(tp, "c") = {"t3"}}

\* the damage relations on which type effectiveness is studied: the predicates
\* for an attacking type read that type's lists only, so one type's lists
\* vary freely and the other types have none
EffectRelations ==
    {[t \in PredicateTypes |-> IF t = AttackType THEN r ELSE NoRelations] :
        r \in RelationRows(PredicateTypes)}

SolverIdle ==
    /\ constructed = FALSE
    /\ row_constraints = <<>>
    /\ column_constraints = <<>>
    /\ strategy = "None"
    /\ selected_pokemon = {}
    /\ last = NoOp
    /\ chosen_log = {}
    /\ DriverIdle

InitEffect ==
    /\ type_roster = PredicateTypes
    /\ type_pokemon \in EffectCatalogs
    /\ damage_relations \in EffectRelations
    /\ instance = NoInstance
    /\ SolverIdle
    /\ returned = [k \in PredicateClasses |-> NotReturned]
    /\ CacheIdle

NextEffect ==
    \/ \E atk \in PredicateTypes \cup {UnknownType} : DetermineResistant(atk)
    \/ \E atk \in PredicateTypes \cup {UnknownType} : DetermineWeak(atk)
    \/ \E atk \in PredicateTypes \cup {UnknownType} : DetermineNeutral(atk)

SpecEffect == InitEffect /\ [][NextEffect]_vars

InitMono ==
    /\ type_roster = PredicateTypes
    /\ type_pokemon \in Typings(TypeEntities, PredicateTypes)
    /\ damage_relations = [t \in PredicateTypes |-> NoRelations]
    /\ instance = NoInstance
    /\ SolverIdle
    /\ returned = [k \in PredicateClasses |-> NotReturned]
    /\ CacheIdle

NextMono ==
    \/ \E filter \in PredicateTypes \cup {NoFilter, UnknownType} : DetermineMonotype(filter)
    \/ \E filter \in PredicateTypes \cup {NoFilter, UnknownType} : DetermineDualType(filter)

SpecMono == InitMono /\ [][NextMono]_vars

(* ------------------------------------------------------------------ *)
(* The evolution-role sets                                             *)
(* ------------------------------------------------------------------ *)

\* the type resources are not in use
TypesIdle ==
    /\ type_roster = Types
    /\ type_pokemon = [t \in Types |-> {}]
    /\ damage_relations = [t \in Types |-> NoRelations]
    /\ returned = [k \in PredicateClasses |-> NotReturned]

\* the shapes of a tree of n nodes: the parent of each node but the root
Parents(n) ==
    {p \in [1..n -> 0..(n - 1)] :
        /\ p[1] = 0
        /\ \A i \in 2..n : p[i] >= 1 /\ p[i] < i}

\* the evolution chains of at most n nodes whose root is the species `root`
\* and whose other nodes are species of N; a name may label more than one node
Trees(n, root, N) ==
    UNION {{[parent |-> p, name |-> nm] :
               p \in Parents(k), nm \in {f \in [1..k -> N] : f[1] = root}} :
              k \in 1..n}

\* the species of the first evolution chain
FirstChainNames == {"a", "b", "c"}

\* the second evolution chain: one species alone, or one that evolves once
SecondChains ==
    {[parent |-> <<0>>, name |-> <<"c">>], [parent |-> <<0>>, name |-> <<"d">>],
     [parent |-> <<0, 1>>, name |-> <<"c", "d">>]}

InitEvo ==
    /\ TypesIdle
    /\ instance = NoInstance
    /\ SolverIdle
    /\ \E c1 \in Trees(MaxNodes, "a", FirstChainNames), c2 \in SecondChains :
          world = [h \in Handles |-> [EmptyWorld EXCEPT !.chains = <<c1, c2>>]]
    /\ fields = NoFields
    /\ access = NoAccess
    /\ tasks = [t \in Tasks |-> IdleTask]
    /\ write_log = <<>>

NextEvo ==
    \E kind \in EvolutionLineClasses, fail \in Failures :
        DetermineEvolutionLine(kind, Client, fail)

SpecEvo == InitEvo /\ [][NextEvo]_vars

(* ------------------------------------------------------------------ *)
(* highest_base_stats                                                  *)
(* ------------------------------------------------------------------ *)

\* a pokemon resource: its stats list is in the order of the stat indices
Pokemon(name, height, weight, base_stats) ==
    [name |-> name, height |-> height, weight |-> weight,
     stats |-> [i \in DOMAIN StatNames |->
                   [name |-> StatNames[i], base_stat |-> base_stats[i]]]]

\* a stat name that is no key of STAT_NAME_TO_INDICES
UnknownStat == "bogus"

InitStats ==
    /\ TypesIdle
    /\ instance = NoInstance
    /\ SolverIdle
    /\ \E base_stats \in [DOMAIN StatNames -> 1..MaxStat] :
          world = [h \in Handles |->
                     [EmptyWorld EXCEPT !.pokemon =
                        <<Pokemon("a", 1, 1, base_stats),
                          Pokemon("b", 1, 1, <<1, 1, 2, 1, 1, 1>>)>>]]
    /\ fields = NoFields
    /\ access = NoAccess
    /\ tasks = [t \in Tasks |-> IdleTask]
    /\ write_log = <<>>

NextStats ==
    \E stat_name \in {StatNames[i] : i \in DOMAIN StatNames} \cup {UnknownStat},
       fail \in Failures :
        CallHighestBaseStats(stat_name, Client, fail)

SpecStats == InitStats /\ [][NextStats]_vars

(* ------------------------------------------------------------------ *)
(* One sequential caller of PokeAPIConstants and two client handles    *)
(* ------------------------------------------------------------------ *)

\* what the first handle serves
FirstWorld ==
    [pokemon |-> <<Pokemon("a", 1, 1, <<1, 1, 2, 1, 1, 1>>),
                   Pokemon("b", 2, 2, <<2, 1, 1, 1, 1, 1>>)>>,
     species |-> <<[name |-> "a", is_legendary |-> TRUE, is_mythical |-> FALSE],
                   [name |-> "b", is_legendary |-> FALSE, is_mythical |-> TRUE]>>,
     chains |-> <<[parent |-> <<0, 1>>, name |-> <<"a", "b">>],
                  [parent |-> <<0>>, name |-> <<"c">>]>>]

\* what the second handle serves: "a" has another height and "c" has become
\* the evolution of "b"
SecondWorld ==
    [FirstWorld EXCEPT
        !.pokemon = <<Pokemon("a", 3, 1, <<1, 1, 2, 1, 1, 1>>),
                      Pokemon("b", 2, 2, <<2, 1, 1, 1, 1, 1>>)>>,
        !.chains = <<[parent |-> <<0, 1, 2>>, name |-> <<"a", "b", "c">>]>>]

InitCache ==
    /\ TypesIdle
    /\ instance = NoInstance
    /\ SolverIdle
    /\ world = [h \in Handles |-> IF h = Client THEN FirstWorld ELSE SecondWorld]
    /\ fields = NoFields
    /\ access = NoAccess
    /\ tasks = [t \in Tasks |-> IdleTask]
    /\ write_log = <<>>

NextCache ==
    \/ \E client \in Handles : CallGetInstance(client)
    \/ \E fact \in Facts, fail \in Failures : AccessFact(fact, fail)
    \/ \E kind \in EvolutionLineClasses, client \in Handles, fail \in Failures :
          DetermineEvolutionLine(kind, client, fail)

SpecCache == InitCache /\ [][NextCache]_vars

(* ------------------------------------------------------------------ *)
(* Two coroutines awaiting the cache                                   *)
(* ------------------------------------------------------------------ *)

\* the accessors the coroutines of the session await
RaceFacts == {"pokemon_types", "gather_heights"}

\* what a gather receives when the list came from the resources w_list and
\* the per-entry requests went to the resources w_items
Gathered(w_list, w_items) ==
    [w_items EXCEPT !.pokemon = [i \in DOMAIN w_list.pokemon |-> w_items.pokemon[i]]]

\* mutant: the assignment is skipped when the field is already set
Assigned_IfUnset(fact, inst, flds, w) ==
    IF Field(inst, flds, fact).cached THEN [instance |-> inst, fields |-> flds]
    ELSE [instance |-> IF fact = "pokemon_types"
                       THEN [inst EXCEPT !.pokemon_types = Holding(type_roster)]
                       ELSE inst,
          fields |-> Computed(fact, flds, w)]

\* the assignment that ends an accessor: self._x = <what was fetched>
Assigned(fact, inst, flds, w) ==
    [instance |-> IF fact = "pokemon_types"
                  THEN [inst EXCEPT !.pokemon_types = Holding(type_roster)]
                  ELSE inst,
     fields |-> Computed(fact, flds, w)]

\* mutant: the per-entry requests go to the handle the list request went to
ItemHandle_Pinned(inst, requests) == requests[1].client

\* self.client as get_pokemon_data reads it when the gathered requests are
\* sent: the handle bound then, whatever handle the requests before went to
ItemHandle(inst, requests) == inst.client

\* a coroutine enters accessor `fact`: it returns the field if it is set and
\* otherwise awaits the list request it sends to the bound handle
Enter(t, fact) ==
    /\ tasks[t].pc = "idle"
    /\ instance.created
    /\ LET field == Field(instance, fields, fact)
       IN tasks' = [tasks EXCEPT ![t] =
             IF CacheHit(field)
             THEN [pc |-> "done", fact |-> fact, hit |-> TRUE,
                   requests |-> <<>>, value |-> field.value]
             ELSE [pc |-> "list", fact |-> fact, hit |-> FALSE,
                   requests |-> <<Request(instance.client, ListEndpoint(fact))>>,
                   value |-> field.value]]
    /\ UNCHANGED <<dataVars, solverVars, returned, instance, world, fields,
                   access, write_log>>

\* the list request of a coroutine is answered: an accessor without a gather
\* assigns its field and returns, the others send one request per entry to
\* the handle bound now and await them
ListArrives(t) ==
    /\ tasks[t].pc = "list"
    /\ LET fact == tasks[t].fact
           w_list == world[tasks[t].requests[1].client]
       IN IF fact \in TableFacts
          THEN /\ tasks' = [tasks EXCEPT
                      ![t].pc = "items",
                      ![t].requests = @ \o [i \in 1..ItemCount(fact, w_list) |->
                                  Request(ItemHandle(instance, tasks[t].requests),
                                          ItemEndpoint(fact))]]
               /\ UNCHANGED <<instance, fields, write_log>>
          ELSE LET r == Assigned(fact, instance, fields, w_list)
                   v == Field(r.instance, r.fields, fact).value
               IN /\ instance' = r.instance
                  /\ fields' = r.fields
                  /\ tasks' = [tasks EXCEPT ![t].pc = "done", ![t].value = v]
                  /\ write_log' = Append(write_log,
                                     [task |-> t, fact |-> fact, value |-> v])
    /\ UNCHANGED <<dataVars, solverVars, returned, world, access>>

\* the gathered requests of a coroutine are answered: it assigns its field
\* and returns it
ItemsArrive(t) ==
    /\ tasks[t].pc = "items"
    /\ LET fact == tasks[t].fact
           w_list == world[tasks[t].requests[1].client]
           w_items == world[tasks[t].requests[Len(tasks[t].requests)].client]
           r == Assigned(fact, instance, fields, Gathered(w_list, w_items))
           v == Field(r.instance, r.fields, fact).value
       IN /\ instance' = r.instance
          /\ fields' = r.fields
          /\ tasks' = [tasks EXCEPT ![t].pc = "done", ![t].value = v]
          /\ write_log' = Append(write_log, [task |-> t, fact |-> fact, value |-> v])
    /\ UNCHANGED <<dataVars, solverVars, returned, world, access>>

InitRace ==
    /\ TypesIdle
    /\ instance = GetInstance(NoInstance, Client)
    /\ SolverIdle
    /\ world = [h \in Handles |-> IF h = Client THEN FirstWorld ELSE SecondWorld]
    /\ fields = NoFields
    /\ access = NoAccess
    /\ tasks = [t \in Tasks |-> IdleTask]
    /\ write_log = <<>>

NextRace ==
    \/ \E t \in Tasks, fact \in RaceFacts : Enter(t, fact)
    \/ \E t \in Tasks : ListArrives(t)
    \/ \E t \in Tasks : ItemsArrive(t)
    \/ \E client \in Handles : CallGetInstance(client)

SpecRace == InitRace /\ [][NextRace]_vars

(* ------------------------------------------------------------------ *)
(* A solver whose strategy is a scoring oracle                         *)
(* ------------------------------------------------------------------ *)

\* the catalogs of a session with an oracle: "a" has the first type alone,
\* "b" the second type and perhaps the first
OracleCatalogs ==
    {tp \in Typings({"a", "b"}, Types) :
        /\ TypesIn(tp, "a") = {"t1"}
        /\ "t2" \in TypesIn(tp, "b")}

InitOracle ==
    /\ type_roster = Types
    /\ type_pokemon \in OracleCatalogs
    /\ damage_relations = [t \in Types |-> NoRelations]
    /\ instance = NoInstance
    /\ SolverIdle
    /\ returned = [k \in PredicateClasses |-> NotReturned]
    /\ CacheIdle

NextOracle ==
    \/ /\ Construct(ListOf(RowPool, 3), ListOf(ColPool, 3), "ChatGPTStrategy")
       /\ UNCHANGED driverVars
    \/ \E top_n \in 0..MaxTopN :
          /\ SuggestForConstraint(0, 0, top_n)
          /\ UNCHANGED driverVars
    \/ \E name \in ChooseNames :
          /\ ChoosePokemon(name)
          /\ UNCHANGED driverVars

SpecOracle == InitOracle /\ [][NextOracle]_vars

(* ------------------------------------------------------------------ *)
(* One pass of the experiment driver                                   *)
(* ------------------------------------------------------------------ *)

\* top_n of the driver's call of suggest_for_constraint
DriverTopN == 10

\* for i in range(3): for j in range(3): the cells are counted 0..Cells-1
Cells == 9

\* i and j of the cell counted k
RowOfCell(k) == k \div 3
ColOfCell(k) == k % 3

\* the column constraints of a configuration every cell of which can be
\* evaluated, and of one whose third column names a type the data source
\* does not know
DriverColumns ==
    {<<Constraint("PokemonHasType", "t2"),
       Constraint("PokemonIsDualType", NoFilter),
       Constraint("PokemonHasType", "t1")>>,
     ListOf(ColPool, 3)}

\* the catalogs of a driver pass: "a" has the first type alone, "d" the
\* second alone, "b" both, "c" any one or two of the types
DriverCatalogs ==
    {tp \in SessionCatalogs : TypesIn(tp, "b") = Types}

\* a line the experiment log holds before the pass
OldLine == [row |-> 2, col |-> 2, possible_answer_count |-> 1,
            suggested_pokemon |-> "d", suggested_score |-> 0,
            actual_score |-> <<>>, strategy |-> "RandomPokegridStrategy"]

\* what the operator may type at the prompt: nothing, a number, no number
ActualInputs == {"", "1", "x"}

\* float(actual) raises ValueError
FloatRaises(actual) == actual \notin {"0", "1"}

\* float(actual)
FloatOf(actual) == IF actual = "0" THEN 0 ELSE 1

\* float(actual) if actual else None: None is the empty tuple, a number a
\* tuple of one
ActualScore(actual) == IF actual = "" THEN <<>> ELSE <<FloatOf(actual)>>

\* the dict appended to results for cell (i, j); run_id, pokegrid_id, the
\* constraint reprs and strategy_params are the same in every record of a
\* pass and are left out
ResultRecord(i, j, possible_answers, top_pokemon, top_score, actual_score, strat) ==
    [row |-> i, col |-> j, possible_answer_count |-> possible_answers,
     suggested_pokemon |-> top_pokemon, suggested_score |-> top_score,
     actual_score |-> actual_score, strategy |-> strat]

\* mutant: the log is opened for writing, not for appending
AppendLines_Truncates(lines, results) == results

\* the log after open(log_path, "a") and one f.write per record: a line is
\* json.dumps of a record, which tells any two of these records apart
AppendLines(lines, results) == lines \o results

\* the loop variables after a cell is done
NextCell(r) ==
    [r EXCEPT !.cell = r.cell + 1,
              !.pc = IF r.cell + 1 = Cells THEN "write" ELSE "suggest",
              !.suggestions = <<>>, !.possible_answers = 0,
              !.top_pokemon = "None"]

\* entrypoint up to PokegridSolver(...): ValueError ends the run
DriverStart(rows, cols, strat) ==
    /\ run.pc = "idle"
    /\ Construct(rows, cols, strat)
    /\ run' = [run EXCEPT !.pc = IF last'.status = "ok" THEN "suggest"
                                                         ELSE "aborted"]
    /\ UNCHANGED log_file

\* suggestions, possible_answers = await solver.suggest_for_constraint(i, j, top_n=10)
DriverSuggest ==
    /\ run.pc = "suggest"
    /\ SuggestForConstraint(RowOfCell(run.cell), ColOfCell(run.cell), DriverTopN)
    /\ run' = IF last'.status = "ok"
              THEN [run EXCEPT !.pc = "choose", !.suggestions = last'.top,
                               !.possible_answers = last'.count]
              ELSE [run EXCEPT !.pc = "aborted"]
    /\ UNCHANGED log_file

\* if not suggestions: continue; else solver.choose_pokemon(suggestions[0][0])
DriverChoose ==
    /\ run.pc = "choose"
    /\ IF Len(run.suggestions) = 0
       THEN /\ run' = NextCell(run)
            /\ UNCHANGED <<dataVars, instance, sessionVars, returned, cacheVars>>
       ELSE /\ ChoosePokemon(run.suggestions[1][1])
            /\ run' = [run EXCEPT !.pc = "input",
                                  !.top_pokemon = run.suggestions[1][1]]
    /\ UNCHANGED log_file

\* actual = input(...).strip(); actual_score = ...; results.append({...})
DriverRecord(actual) ==
    /\ run.pc = "input"
    /\ run' = IF actual # "" /\ FloatRaises(actual)
              THEN [run EXCEPT !.pc = "aborted"]
              ELSE NextCell([run EXCEPT !.results =
                       Append(@, ResultRecord(RowOfCell(run.cell), ColOfCell(run.cell),
                                              run.possible_answers, run.top_pokemon,
                                              run.suggestions[1][2],
                                              ActualScore(actual), strategy))])
    /\ UNCHANGED <<dataVars, instance, sessionVars, returned, cacheVars, log_file>>

\* if results: with open(log_path, "a") as f: for r in results: f.write(...)
DriverWrite ==
    /\ run.pc = "write"
    /\ log_file' = IF Len(run.results) # 0
                   THEN AppendLines(log_file, run.results)
                   ELSE log_file
    /\ run' = [run EXCEPT !.pc = "done"]
    /\ UNCHANGED <<dataVars, instance, sessionVars, returned, cacheVars>>

InitDriver ==
    /\ type_roster = Types
    /\ type_pokemon \in DriverCatalogs
    /\ damage_relations = [t \in Types |-> NoRelations]
    /\ instance = NoInstance
    /\ constructed = FALSE
    /\ row_constraints = <<>>
    /\ column_constraints = <<>>
    /\ strategy = "None"
    /\ selected_pokemon = {}
    /\ last = NoOp
    /\ chosen_log = {}
    /\ returned = [k \in PredicateClasses |-> NotReturned]
    /\ CacheIdle
    /\ run = NoRun
    /\ log_file = <<OldLine>>

NextDriver ==
    \/ \E n \in 2..3, cols \in DriverColumns :
          DriverStart(ListOf(RowPool, n), cols, "RandomPokegridStrategy")
    \/ DriverSuggest
    \/ DriverChoose
    \/ \E actual \in ActualInputs : DriverRecord(actual)
    \/ DriverWrite

SpecDriver == InitDriver /\ [][NextDriver]_vars

(* ------------------------------------------------------------------ *)
(* What the claims speak of                                            *)
(* ------------------------------------------------------------------ *)

\* the types the data source lists for a species
TypesOf(p) == {t \in DOMAIN type_pokemon : p \in type_pokemon[t]}

\* every species of the data source
Catalog == UNION {type_pokemon[t] : t \in DOMAIN type_pokemon}

\* species p meets constraint c (the type predicates of a solver session)
Satisfies(p, c) ==
    CASE c.kind = "PokemonHasType" -> c.arg \in TypesOf(p)
      [] c.kind = "PokemonIsMonotype" ->
            Cardinality(TypesOf(p)) = 1 /\ (c.arg = NoFilter \/ c.arg \in TypesOf(p))
      [] c.kind = "PokemonIsDualType" ->
            Cardinality(TypesOf(p)) >= 2 /\ (c.arg = NoFilter \/ c.arg \in TypesOf(p))

\* the data source can answer every lookup constraint c makes
Answerable(c) == c.arg = NoFilter \/ c.arg \in DOMAIN type_pokemon

InRange(i) == i \in 0..2

\* the last operation was a suggestion for a cell of the grid
SuggestedCell == last.op = "suggest" /\ InRange(last.row) /\ InRange(last.col)

RowOfLast == row_constraints[last.row + 1]
ColOfLast == column_constraints[last.col + 1]
RowMatches == {p \in Catalog : Satisfies(p, RowOfLast)}
ColMatches == {p \in Catalog : Satisfies(p, ColOfLast)}

\* the species meeting both constraints of the last cell and not chosen
ExpectedPool ==
    {p \in Catalog : /\ Satisfies(p, RowOfLast)
                     /\ Satisfies(p, ColOfLast)
                     /\ p \notin selected_pokemon}

NamesOf(ranked) == {ranked[i][1] : i \in DOMAIN ranked}

\* C1: a successful suggest_for_constraint(r, c, top_n) hands the strategy
\* exactly (row matching set & column matching set) - selected_pokemon, and
\* the integer it returns is the size of that pool.
C1_PoolHandedToStrategy ==
    (last.op = "suggest" /\ last.status = "ok") =>
        /\ last.strategy_called
        /\ last.possible_pokemon = ExpectedPool
        /\ NamesOf(last.ranked) = ExpectedPool
        /\ last.count = Cardinality(ExpectedPool)

\* C1 witness: row set {a,b,c}, column set {b,c,d}, nothing chosen: pool {b,c}, size 2
C1_Witness ==
    /\ last.op = "suggest" /\ last.status = "ok"
    /\ selected_pokemon = {}
    /\ RowMatches = {"a", "b", "c"}
    /\ ColMatches = {"b", "c", "d"}
    /\ last.possible_pokemon = {"b", "c"}
    /\ last.count = 2

\* C2: once choose_pokemon(x) has been called, no later suggestion has x in
\* its candidate pool (nor in the ranking made from it), for any cell.
C2_ChosenNeverSuggested ==
    (last.op = "suggest" /\ last.status = "ok") =>
        /\ last.possible_pokemon \cap chosen_log = {}
        /\ NamesOf(last.ranked) \cap chosen_log = {}

\* C2 witness: b meets both constraints of the cell, was chosen, then another
\* name was chosen, and the suggestion that followed left b out
C2_Witness ==
    /\ last.op = "suggest" /\ last.status = "ok"
    /\ chosen_log = {"b", "z"}
    /\ "b" \in RowMatches \cap ColMatches
    /\ "b" \notin last.possible_pokemon
    /\ last.possible_pokemon # {}

\* C3: the constructor raises exactly when the rows or the columns are not 3,
\* and a successful construction leaves 3 rows, 3 columns and nothing chosen.
C3_ConstructorChecksShape ==
    /\ constructed => Len(row_constraints) = 3 /\ Len(column_constraints) = 3
    /\ last.op = "init" =>
          /\ last.status \in {"ok", "ValueError"}
          /\ (last.status = "ValueError") <=> (last.nrows # 3 \/ last.ncols # 3)
          /\ (last.status = "ValueError") => ~constructed
          /\ (last.status = "ok") => constructed /\ selected_pokemon = {}

\* C3 witness: 2 row constraints and 3 column constraints were refused
C3_Witness ==
    /\ last.op = "init" /\ last.status = "ValueError"
    /\ last.nrows = 2 /\ last.ncols = 3
    /\ ~constructed

\* C4: suggest_for_constraint with row or col outside 0..2 raises ValueError
\* before any predicate is evaluated and before the strategy is called.
C4_IndexOutOfRangeRaisesFirst ==
    (last.op = "suggest" /\ ~(InRange(last.row) /\ InRange(last.col))) =>
        /\ last.status = "ValueError"
        /\ last.evaluated = <<>>
        /\ ~last.strategy_called

\* C4 witness: suggest_for_constraint(3, 0, ...) raised
C4_Witness ==
    /\ last.op = "suggest" /\ last.row = 3 /\ last.col = 0
    /\ last.status = "ValueError"

\* C5: selected_pokemon is exactly the set of names passed to choose_pokemon
\* so far; it never shrinks, choose_pokemon(n) adds n whatever n is, and
\* suggest_for_constraint leaves it unchanged whether it succeeds or fails.
C5_SelectedIsChosenLog ==
    /\ [](selected_pokemon = chosen_log)
    /\ [][/\ selected_pokemon \subseteq selected_pokemon'
          /\ (last'.op = "choose") =>
                selected_pokemon' = selected_pokemon \cup {last'.name}
          /\ (last'.op = "suggest") => selected_pokemon' = selected_pokemon]_vars

\* C5 witness: a name that is no species was chosen, and a failed suggestion
\* came after two chooses
C5_Witness ==
    /\ selected_pokemon = {"b", "z"}
    /\ last.op = "suggest" /\ last.status = "FetchError"

\* C6: a cell whose candidate pool is empty does not make
\* suggest_for_constraint fail: the top list is empty and the pool size 0.
C6_EmptyPoolIsNoFailure ==
    (/\ SuggestedCell
     /\ Answerable(RowOfLast) /\ Answerable(ColOfLast)
     /\ ExpectedPool = {}) =>
        /\ last.status = "ok"
        /\ last.top = <<>>
        /\ last.count = 0

\* C6 witness: every species common to the row and the column was chosen,
\* and top_n asked for one
C6_Witness ==
    /\ SuggestedCell /\ last.status = "ok"
    /\ RowMatches \cap ColMatches # {}
    /\ RowMatches \cap ColMatches \subseteq selected_pokemon
    /\ last.top_n >= 1
    /\ last.top = <<>>

\* C7: rank_options returns one entry per input name and no other, in
\* descending score, equal scores in ascending name.
C7_RankingIsSortedPermutation ==
    last.strategy_called =>
        /\ Len(last.ranked) = Cardinality(last.possible_pokemon)
        /\ NamesOf(last.ranked) = last.possible_pokemon
        /\ \A i, j \in DOMAIN last.ranked :
              i < j => \/ last.ranked[i][2] > last.ranked[j][2]
                       \/ /\ last.ranked[i][2] = last.ranked[j][2]
                          /\ NameLess(last.ranked[i][1], last.ranked[j][1])

\* C7 witness: three names ranked, a strict descent and then a tie
C7_Witness ==
    /\ last.strategy_called
    /\ Len(last.ranked) = 3
    /\ last.ranked[1][2] > last.ranked[2][2]
    /\ last.ranked[2][2] = last.ranked[3][2]

Resistant == returned["PokemonResistantToType"]
Weak == returned["PokemonWeakToType"]
Neutral == returned["PokemonNeutralToType"]
Monotype == returned["PokemonIsMonotype"]
DualType == returned["PokemonIsDualType"]

\* the species with at least one type in the attacking type's no_damage_to list
ImmuneTo(atk) ==
    {p \in Catalog : TypesOf(p) \cap damage_relations[atk].no_damage_to # {}}

\* the three effectiveness predicates have answered for one attacking type
AllThreeAnswered ==
    /\ Resistant.called /\ Weak.called /\ Neutral.called
    /\ Resistant.ok /\ Weak.ok /\ Neutral.ok
    /\ Resistant.param = Weak.param /\ Weak.param = Neutral.param

Disjoint(A, B) == A \cap B = {}

\* C8 as claimed: immune, resistant, weak and neutral are four pairwise
\* disjoint classes whose union is the catalog.
C8_FourClassPartition ==
    AllThreeAnswered =>
        LET immune == ImmuneTo(Resistant.param)
        IN /\ Disjoint(immune, Resistant.set)
           /\ Disjoint(immune, Weak.set)
           /\ Disjoint(immune, Neutral.set)
           /\ Disjoint(Resistant.set, Weak.set)
           /\ Disjoint(Resistant.set, Neutral.set)
           /\ Disjoint(Weak.set, Neutral.set)
           /\ immune \cup Resistant.set \cup Weak.set \cup Neutral.set = Catalog

\* C8 amended: for one attacking type the resistant, weak and neutral sets are
\* pairwise disjoint and their union is the catalog; the immune species are
\* no fourth class but part of the resistant set.
C8_ThreeClassPartition ==
    AllThreeAnswered =>
        /\ Disjoint(Resistant.set, Weak.set)
        /\ Disjoint(Resistant.set, Neutral.set)
        /\ Disjoint(Weak.set, Neutral.set)
        /\ Resistant.set \cup Weak.set \cup Neutral.set = Catalog
        /\ ImmuneTo(Resistant.param) \subseteq Resistant.set

\* C8 witness: all three answered for one type, none of the three sets is
\* empty, and a species is immune
C8_Witness ==
    /\ AllThreeAnswered
    /\ Resistant.set # {} /\ Weak.set # {} /\ Neutral.set # {}
    /\ ImmuneTo(Resistant.param) # {}

\* C9 as claimed: a species with a type in the no_damage_to list is in none
\* of the resistant, weak and neutral sets.
C9_ImmuneInNoSet ==
    \A k \in {"PokemonResistantToType", "PokemonWeakToType", "PokemonNeutralToType"} :
        (returned[k].called /\ returned[k].ok) =>
            Disjoint(ImmuneTo(returned[k].param), returned[k].set)

\* C9 amended: a species with a type in the no_damage_to list is in neither
\* the weak nor the neutral set, whatever its other type, and it is in the
\* resistant set.
C9_ImmuneOnlyResistant ==
    /\ (Weak.called /\ Weak.ok) => Disjoint(ImmuneTo(Weak.param), Weak.set)
    /\ (Neutral.called /\ Neutral.ok) => Disjoint(ImmuneTo(Neutral.param), Neutral.set)
    /\ (Resistant.called /\ Resistant.ok) => ImmuneTo(Resistant.param) \subseteq Resistant.set

\* C9 witness: b has an immune type and a type that is weak to the attack;
\* all three predicates answered: b is resistant, not weak, not neutral
C9_Witness ==
    /\ AllThreeAnswered
    /\ TypesOf("b") \cap damage_relations[Weak.param].no_damage_to # {}
    /\ TypesOf("b") \cap damage_relations[Weak.param].double_damage_to # {}
    /\ "b" \in Resistant.set
    /\ "b" \notin Weak.set
    /\ "b" \notin Neutral.set

\* C10: PokemonIsMonotype(T) and PokemonIsDualType(T) are disjoint for every
\* filter T, and without a filter every species of some per-type set is in
\* exactly one of them: monotype with one type set, dual type with two or more.
C10_MonoDualDisjointAndCover ==
    (/\ Monotype.called /\ DualType.called
     /\ Monotype.ok /\ DualType.ok
     /\ Monotype.param = DualType.param) =>
        /\ Disjoint(Monotype.set, DualType.set)
        /\ Monotype.param = NoFilter =>
              /\ Monotype.set \cup DualType.set = Catalog
              /\ Monotype.set = {p \in Catalog : Cardinality(TypesOf(p)) = 1}
              /\ DualType.set = {p \in Catalog : Cardinality(TypesOf(p)) >= 2}

\* C10 witness: both answered without a filter; a has one type, b two, c three
C10_Witness ==
    /\ Monotype.called /\ DualType.called
    /\ Monotype.param = NoFilter /\ DualType.param = NoFilter
    /\ Cardinality(TypesOf("a")) = 1
    /\ Cardinality(TypesOf("b")) = 2
    /\ Cardinality(TypesOf("c")) = 3
    /\ Monotype.set = {"a"}
    /\ DualType.set = {"b", "c"}

(* ------------------------------------------------------------------ *)
(* Evolution roles (SpecEvo)                                           *)
(* ------------------------------------------------------------------ *)

\* the evolution chains the session's client serves
Chains == world[Client].chains
ChainIds == DOMAIN Chains
ChainSize(i) == Len(Chains[i].parent)
SingleNode(i) == ChainSize(i) = 1
\* the names of the nodes of chain i that satisfy P
NodeNames(i, P(_, _)) == {Chains[i].name[k] : k \in {j \in 1..ChainSize(i) : P(i, j)}}
AnyNode(i, k) == TRUE
IsRoot(i, k) == Chains[i].parent[k] = 0
IsLeaf(i, k) == \A j \in 1..ChainSize(i) : Chains[i].parent[j] # k
IsInner(i, k) == ~IsRoot(i, k) /\ ~IsLeaf(i, k)
\* the names P picks over the chains of more than one node
OverLongerChains(P(_, _)) == UNION {NodeNames(i, P) : i \in {j \in ChainIds : ~SingleNode(j)}}
RolesCached == fields.first_evolutions.cached

\* C11: once the roles are classified, the no-evolution set holds the species
\* of every chain that is a single node and nothing else (no chain of more than
\* one node adds to it), and the first, middle and final sets hold only names
\* of chains of more than one node (a single-node chain adds to none of them)
C11_SingleNodeChainIsNoEvolution ==
    fields.no_evolutions.cached =>
        /\ \A i \in ChainIds :
              SingleNode(i) => Chains[i].name[1] \in fields.no_evolutions.value
        /\ fields.no_evolutions.value
              = {Chains[i].name[1] : i \in {j \in ChainIds : SingleNode(j)}}
        /\ (fields.first_evolutions.value \cup fields.middle_evolutions.value
              \cup fields.final_evolutions.value) \subseteq OverLongerChains(AnyNode)

\* a single-node chain beside a chain of several nodes, classified, and the
\* no-evolution predicate has returned the single species
C11_Witness ==
    /\ fields.no_evolutions.cached
    /\ ~SingleNode(1) /\ SingleNode(2)
    /\ access.op = "PokemonNoEvolutionLine" /\ access.ok
    /\ access.value = {Chains[2].name[1]}
    /\ Chains[2].name[1] \notin fields.first_evolutions.value

\* C18: once the roles are classified, the first-stage set is the roots of the
\* chains of more than one node (the first element of each of their
\* root-to-leaf paths), the final-stage set is their leaves (the last element
\* of each path), the middle-stage set is their nodes that are neither (the
\* interior of each path longer than 2), each a union over all chains
C18_RolesFollowPaths ==
    RolesCached =>
        /\ fields.first_evolutions.value = OverLongerChains(IsRoot)
        /\ fields.final_evolutions.value = OverLongerChains(IsLeaf)
        /\ fields.middle_evolutions.value = OverLongerChains(IsInner)
        /\ fields.middle_evolutions.cached /\ fields.final_evolutions.cached
        /\ fields.no_evolutions.cached

\* a branching chain (a root with two leaves) beside a two-node chain,
\* classified: the root is first-stage and both chains have contributed
C18_Witness ==
    /\ RolesCached
    /\ Chains[1].parent = <<0, 1, 1>>
    /\ ChainSize(2) = 2
    /\ Chains[1].name[1] \in fields.first_evolutions.value
    /\ Chains[2].name[1] \in fields.first_evolutions.value
    /\ Cardinality(fields.final_evolutions.value) = 3

(* ------------------------------------------------------------------ *)
(* highest_base_stats (SpecStats)                                      *)
(* ------------------------------------------------------------------ *)

\* the pokemon resources the session's client serves
PokemonData == world[Client].pokemon
\* the value resource i has for a stat
StatValue(i, stat_name) ==
    LET st == CHOOSE st \in {PokemonData[i].stats[k] : k \in DOMAIN PokemonData[i].stats} :
                  st.name = stat_name
    IN st.base_stat
\* the names of a list
Elements(seq) == {seq[i] : i \in DOMAIN seq}
HighestAnswered == access.op = "highest_base_stats" /\ access.ok
OtherStats(stat_name) == {StatNames[i] : i \in DOMAIN StatNames} \ {stat_name}

\* C12: highest_base_stats(stat) returns exactly the entities whose value for
\* stat is strictly greater than each of their other five stat values, so an
\* entity with a tie between stat and another stat is not returned
C12_StrictlyHighestOnly ==
    HighestAnswered =>
        Elements(access.value) =
            {PokemonData[i].name : i \in
                {j \in DOMAIN PokemonData :
                    \A other \in OtherStats(access.fact) :
                        StatValue(j, access.fact) > StatValue(j, other)}}

\* "defense" was asked; "b" has it strictly highest and is returned, "a" has
\* it tied with another stat above the remaining four and is not
C12_Witness ==
    /\ HighestAnswered
    /\ access.fact = "defense"
    /\ access.value = <<"b">>
    /\ \E other \in OtherStats("defense") :
          /\ StatValue(1, "defense") = StatValue(1, other)
          /\ StatValue(1, "defense") > 1

\* C15 as stated: a request for the stat name that was answered just before
\* issues no data-source request
C15_SecondRequestIsCached ==
    (HighestAnswered /\ access.again) => access.requests = <<>>

\* C15: highest_base_stats keeps nothing: every request for a known stat
\* name, a repeated one included, issues the list request and one request per
\* entity on the bound handle, and leaves every cache field as it was
C15_EveryRequestFetchesAgain ==
    /\ HighestAnswered =>
          /\ Len(access.requests) = 1 + Len(PokemonData)
          /\ \A i \in DOMAIN access.requests : access.requests[i].client = access.client
    /\ fields = NoFields
    /\ ~instance.pokemon_types.cached

\* the same stat name was answered twice in a row, and the second answer
\* fetched the list and both entities again
C15_Witness ==
    /\ HighestAnswered /\ access.again
    /\ Len(access.requests) = 3
    /\ access.requests[1].endpoint = "pokemon"
    /\ access.requests[2].endpoint = "pokemon/id"

(* ------------------------------------------------------------------ *)
(* The neutral set (SpecEffect)                                        *)
(* ------------------------------------------------------------------ *)

\* the types of species p that the attacking type's list names
TypesListed(p, atk, list) == TypesOf(p) \cap damage_relations[atk][list]
\* none of the types of p is in any relation list of the attacking type
Unrelated(p, atk) ==
    /\ TypesListed(p, atk, "no_damage_to") = {}
    /\ TypesListed(p, atk, "half_damage_to") = {}
    /\ TypesListed(p, atk, "double_damage_to") = {}

\* C17: PokemonNeutralToType(T) returns exactly the species of the whole
\* catalog that have no type in T's no_damage_to list and as many types in
\* T's half_damage_to list as in its double_damage_to list; a species none of
\* whose types is in any list of T is therefore returned
C17_NeutralOverWholeCatalog ==
    (Neutral.called /\ Neutral.ok) =>
        /\ Neutral.set =
              {p \in Catalog :
                  /\ TypesListed(p, Neutral.param, "no_damage_to") = {}
                  /\ Cardinality(TypesListed(p, Neutral.param, "half_damage_to"))
                       = Cardinality(TypesListed(p, Neutral.param, "double_damage_to"))}
        /\ \A p \in Catalog : Unrelated(p, Neutral.param) => p \in Neutral.set

\* the attacking type has a half and a double list; "c" has no type in any
\* of its lists and is returned, "b" has one type in each of the two and is
\* returned, "a" has a type in one of them only and is not
C17_Witness ==
    /\ Neutral.called /\ Neutral.ok
    /\ Unrelated("c", Neutral.param)
    /\ Cardinality(TypesListed("b", Neutral.param, "half_damage_to")) = 1
    /\ Cardinality(TypesListed("b", Neutral.param, "double_damage_to")) = 1
    /\ ~Unrelated("a", Neutral.param)
    /\ Neutral.set = {"b", "c"}

(* ------------------------------------------------------------------ *)
(* The cache under one sequential caller (SpecCache)                   *)
(* ------------------------------------------------------------------ *)

\* the cache field behind an accessor, now and after the step
FieldNow(fact) == Field(instance, fields, fact)
FieldNext(fact) == Field(instance', fields', fact)
\* the step is a call that awaited a cached accessor, directly or through an
\* evolution-line predicate
Awaited == access.op = "await" \/ access.op \in EvolutionLineClasses
\* what identifies a call: the returned value aside, whose type depends on
\* the accessor
Call(a) == <<a.op, a.fact, a.client, a.hit, a.ok, a.requests>>
Called == Call(access') # Call(access)
AwaitedNext == Called /\ (access'.op = "await" \/ access'.op \in EvolutionLineClasses)
\* the accessors that one computation fills together with `fact`
FilledWith(fact) ==
    CASE fact \in EvolutionFacts -> EvolutionFacts
      [] fact \in SpeciesFacts -> SpeciesFacts
      [] OTHER -> {fact}
\* what the two handles would give for the height table
HeightsOf(client) == GatheredHeights(NoFields, world[client]).heights.value

\* C13: a call get_instance(h) leaves the one instance in place, bound to h,
\* with every cache field as it was; an accessor awaited afterwards returns
\* what was cached, whichever handle computed it
C13_RebindKeepsCache ==
    [][/\ instance.created => instance'.created
       /\ (Called /\ access'.op = "get_instance") =>
             /\ instance'.created
             /\ instance'.client = access'.client
             /\ fields' = fields
             /\ instance'.pokemon_types = instance.pokemon_types
       /\ \A fact \in Facts :
             (AwaitedNext /\ access'.fact = fact /\ FieldNow(fact).cached) =>
                 access'.value = FieldNow(fact).value]_vars

\* the heights were computed under the first handle, the instance was then
\* bound to the second, which serves other heights, and gather_heights
\* returned the table of the first
C13_Witness ==
    /\ access.op = "await" /\ access.fact = "gather_heights" /\ access.hit
    /\ instance.client = OtherClient
    /\ access.value = HeightsOf(Client)
    /\ HeightsOf(Client) # HeightsOf(OtherClient)

\* C14: a cache field that is set is never assigned again; an access that
\* finds its field set issues no request and returns the field; the two
\* species lists are set by one pass over the species and the four role sets
\* by one classification of the chains
C14_ComputedAtMostOnce ==
    /\ [](Awaited /\ access.hit =>
             /\ access.requests = <<>>
             /\ access.value = FieldNow(access.fact).value)
    /\ [](/\ fields.legendaries.cached <=> fields.mythicals.cached
          /\ \A f, g \in EvolutionFacts : FieldNow(f).cached <=> FieldNow(g).cached)
    /\ [][\A fact \in Facts :
             /\ FieldNow(fact).cached =>
                   /\ FieldNext(fact) = FieldNow(fact)
                   /\ (AwaitedNext /\ access'.fact = fact) =>
                         access'.hit /\ access'.requests = <<>>
             /\ (~FieldNow(fact).cached /\ FieldNext(fact).cached) =>
                   /\ AwaitedNext /\ access'.fact \in FilledWith(fact)
                   /\ Len(access'.requests) =
                         1 + ItemCount(fact, world[access'.client])]_vars

\* mythical_pokemon was awaited on the second handle and found its list set,
\* so it fetched nothing; every field of the cache is set
C14_Witness ==
    /\ access.op = "await" /\ access.fact = "mythical_pokemon"
    /\ access.hit /\ access.requests = <<>>
    /\ access.client = OtherClient
    /\ \A fact \in Facts : FieldNow(fact).cached

\* C16 as stated: evaluating a predicate leaves the instance, its bound
\* handle and its cache fields as they were
C16_PredicatesChangeNothing ==
    [][(Called /\ access'.op \in EvolutionLineClasses) =>
          instance' = instance /\ fields' = fields]_vars

\* C16: evaluating a predicate leaves the data source, the solver with its
\* constraint objects and every cache field that is set as they were; it does
\* leave the instance created and bound to the client it was given and, when
\* it succeeds, the cache fields of the fact it read set
C16_PredicatesOnlyBindAndFill ==
    [][(Called /\ access'.op \in EvolutionLineClasses) =>
          /\ UNCHANGED <<dataVars, solverVars, world>>
          /\ instance'.created /\ instance'.client = access'.client
          /\ \A fact \in Facts :
                /\ FieldNow(fact).cached => FieldNext(fact) = FieldNow(fact)
                /\ fact \notin EvolutionFacts => FieldNext(fact) = FieldNow(fact)
                /\ (fact \in EvolutionFacts /\ access'.ok) => FieldNext(fact).cached]_vars

\* a no-evolution predicate was evaluated with the second client on an
\* instance whose heights the first handle had filled: the instance is now
\* bound to the second client and holds role sets it did not hold before
C16_Witness ==
    /\ access.op = "PokemonNoEvolutionLine" /\ access.ok /\ ~access.hit
    /\ access.client = OtherClient /\ instance.client = OtherClient
    /\ fields.no_evolutions.cached
    /\ fields.heights.cached /\ fields.heights.value = HeightsOf(Client)

WritesTo(fact) == {i \in DOMAIN write_log : write_log[i].fact = fact}
LastWriteTo(fact) ==
    write_log[CHOOSE i \in WritesTo(fact) : \A j \in WritesTo(fact) : j <= i]
Missed(t) == tasks[t].pc # "idle" /\ ~tasks[t].hit
\* what the handles that coroutine t sent its requests to have answered
FetchedBy(t) ==
    LET w_list == world[tasks[t].requests[1].client]
        w_items == world[tasks[t].requests[Len(tasks[t].requests)].client]
    IN IF tasks[t].fact = "pokemon_types" THEN type_roster
       ELSE Computed(tasks[t].fact, NoFields, Gathered(w_list, w_items))
               [FieldOf(tasks[t].fact)].value
Returned(t) == tasks[t].pc = "done"

\* C20 as stated: of two accesses that both missed only the first to complete
\* assigns the field: no field is assigned a second time
C20_FirstWriterWins ==
    \A fact \in RaceFacts : Cardinality(WritesTo(fact)) <= 1

\* C20: every access that missed sends its own requests and assigns the
\* field when they are answered, so the field holds what the access that
\* completed last assigned; an access that found the field set sent nothing
C20_LastWriterWins ==
    /\ \A t \in Tasks :
          /\ Missed(t) => tasks[t].requests # <<>>
          /\ (Missed(t) /\ Returned(t)) =>
                \E i \in WritesTo(tasks[t].fact) : write_log[i].task = t
          /\ (Returned(t) /\ tasks[t].hit) =>
                /\ tasks[t].requests = <<>>
                /\ \A i \in DOMAIN write_log : write_log[i].task # t
    /\ \A fact \in RaceFacts :
          /\ WritesTo(fact) = {} => ~FieldNow(fact).cached
          /\ WritesTo(fact) # {} =>
                /\ FieldNow(fact) = Holding(LastWriteTo(fact).value)
                /\ FieldNow(fact).value = FetchedBy(LastWriteTo(fact).task)

\* both coroutines missed the height table and each fetched it, one of them
\* on the other handle after a rebinding; the field was assigned twice and
\* holds the table of the coroutine that completed last, not the first one
C20_Witness ==
    /\ \A t \in Tasks :
          Returned(t) /\ ~tasks[t].hit /\ tasks[t].fact = "gather_heights"
    /\ Len(write_log) = 2
    /\ write_log[1].value # write_log[2].value
    /\ fields.heights.value = write_log[2].value
    /\ fields.heights.value = FetchedBy(write_log[2].task)

(* ------------------------------------------------------------------ *)
(* The suggestion of an oracle strategy (SpecOracle)                   *)
(* ------------------------------------------------------------------ *)

Smaller(m, n) == IF m < n THEN m ELSE n
SuggestionReturned == last.op = "suggest" /\ last.status = "ok"

\* C22: for top_n >= 0 a suggestion is the first min(top_n, length) entries
\* of the list the strategy returned, in its order, and the reported size is
\* the number of names in the pool handed to the strategy, whatever the
\* length of the strategy's list
C22_TopOfOracleListAndPoolSize ==
    (SuggestionReturned /\ last.top_n >= 0) =>
        /\ Len(last.top) = Smaller(last.top_n, Len(last.ranked))
        /\ \A i \in 1..Len(last.top) : last.top[i] = last.ranked[i]
        /\ last.possible_pokemon = ExpectedPool
        /\ last.count = Cardinality(ExpectedPool)

\* the pool was {b}; the oracle answered with b twice, so its list is longer
\* than the pool; top_n = 1 returned the first entry and the size 1
C22_Witness ==
    /\ SuggestionReturned
    /\ strategy = "ChatGPTStrategy"
    /\ last.top_n = 1
    /\ last.possible_pokemon = {"b"}
    /\ Len(last.ranked) = 2
    /\ last.ranked[1][1] = "b" /\ last.ranked[2][1] = "b"
    /\ last.top = <<last.ranked[1]>>
    /\ last.count = 1

(* ------------------------------------------------------------------ *)
(* A pass of the experiment driver (SpecDriver)                        *)
(* ------------------------------------------------------------------ *)

\* the count of the cell a record is about
CellOf(record) == record.row * 3 + record.col

\* the species meeting the row and the column constraint of the cell counted k
RowMatchesOfCell(k) ==
    {p \in Catalog : Satisfies(p, row_constraints[RowOfCell(k) + 1])}
ColMatchesOfCell(k) ==
    {p \in Catalog : Satisfies(p, column_constraints[ColOfCell(k) + 1])}

\* the loop holds the suggestions of the current cell
CellSuggested == run.pc = "choose"
CellDone == run'.cell = run.cell + 1

\* C21: the log is written only after all nine cells were processed: until
\* then it holds what it held before the pass, a failed suggestion ends the
\* run for good with nothing written (the records of the cells already done
\* included), and the one write appends the records, which are one per cell
\* with a non-empty suggestion list, in row-major order
C21_LogWrittenAfterWholePass ==
    /\ [](run.pc # "done" => log_file = <<OldLine>>)
    /\ [](run.pc = "done" => /\ run.cell = Cells
                             /\ log_file = <<OldLine>> \o run.results)
    /\ [](\A m, n \in DOMAIN run.results :
             m < n => CellOf(run.results[m]) < CellOf(run.results[n]))
    /\ [][/\ run.pc # "aborted"
          /\ (run.pc = "suggest" /\ last'.status # "ok") => run'.pc = "aborted"
          /\ log_file' # log_file => run.pc = "write" /\ run.cell = Cells
          /\ CellDone =>
                \/ /\ CellSuggested /\ Len(run.suggestions) = 0
                   /\ run'.results = run.results
                \/ /\ Len(run.suggestions) # 0
                   /\ Len(run'.results) = Len(run.results) + 1
                   /\ SubSeq(run'.results, 1, Len(run.results)) = run.results
                   /\ CellOf(run'.results[Len(run'.results)]) = run.cell
          /\ run'.results # run.results => CellDone]_vars

\* the suggestion for cell (0, 2) failed after two cells were recorded: the
\* run is over and the log holds the old line only
C21_Witness ==
    /\ run.pc = "aborted"
    /\ last.op = "suggest" /\ last.status = "FetchError"
    /\ last.row = 0 /\ last.col = 2
    /\ Len(run.results) = 2
    /\ log_file = <<OldLine>>

\* a pass came to its end with records for some cells and none for others
PassWritten ==
    /\ run.pc = "done"
    /\ Len(run.results) \in 1..(Cells - 1)
    /\ log_file = <<OldLine>> \o run.results

\* C23: with a strategy that returns only names it was given, the name the
\* driver chooses for a cell meets the row and the column constraint of the
\* cell and was not chosen for an earlier cell; a cell without suggestions
\* is passed over and the chosen set stays as it is
C23_ChosenNameFitsCellAndIsNew ==
    /\ [](\A m, n \in DOMAIN run.results :
             m # n => run.results[m].suggested_pokemon
                         # run.results[n].suggested_pokemon)
    /\ [][/\ (CellSuggested /\ Len(run.suggestions) # 0) =>
                LET name == run'.top_pokemon
                IN /\ name \in RowMatchesOfCell(run.cell)
                   /\ name \in ColMatchesOfCell(run.cell)
                   /\ name \notin selected_pokemon
                   /\ selected_pokemon' = selected_pokemon \cup {name}
          /\ (CellSuggested /\ Len(run.suggestions) = 0) =>
                /\ selected_pokemon' = selected_pokemon
                /\ CellDone
          /\ selected_pokemon' # selected_pokemon => CellSuggested]_vars

\* the pass is at cell (1, 2): three names were chosen, one per cell of the
\* first row, and cell (1, 1), which no species fits, was passed over
C23_Witness ==
    /\ run.pc = "suggest"
    /\ run.cell = 5
    /\ Cardinality(selected_pokemon) >= 3
    /\ Len(run.results) >= 3
    /\ \A m \in DOMAIN run.results : CellOf(run.results[m]) # 4

(* ------------------------------------------------------------------ *)
(* The handle of a suspended computation (SpecRace)                    *)
(* ------------------------------------------------------------------ *)

\* the requests coroutine t sends in the step
SentNow(t) == (Len(tasks[t].requests) + 1)..Len(tasks'[t].requests)
\* coroutine t completes its gather in the step
GatherEnds(t) == tasks[t].pc = "items" /\ tasks'[t].pc = "done"

\* C24: a computation is not pinned to the handle it started with: every
\* request goes to the handle bound when it is sent, so after a rebinding
\* during the wait for the list the per-entry requests go to the new handle,
\* and what they answer is stored in the shared instance
C24_RequestsFollowTheBoundHandle ==
    [][\A t \in Tasks :
          /\ \A i \in SentNow(t) : tasks'[t].requests[i].client = instance.client
          /\ GatherEnds(t) =>
                /\ FieldNext(tasks[t].fact) = Holding(FetchedBy(t))
                /\ tasks'[t].value = FetchedBy(t)]_vars

\* a coroutine sent the list request for the heights to the first handle and,
\* after a rebinding, the per-entry requests to the second; the shared field
\* holds the heights the second handle serves
C24_Witness ==
    \E t \in Tasks :
        /\ Returned(t) /\ ~tasks[t].hit /\ tasks[t].fact = "gather_heights"
        /\ Len(tasks[t].requests) >= 2
        /\ tasks[t].requests[1].client = Client
        /\ \A i \in 2..Len(tasks[t].requests) :
              tasks[t].requests[i].client = OtherClient
        /\ fields.heights = Holding(HeightsOf(OtherClient))
        /\ HeightsOf(OtherClient) # HeightsOf(Client)

(* ------------------------------------------------------------------ *)
(* The roles within one chain (SpecEvo)                                *)
(* ------------------------------------------------------------------ *)

\* no two nodes of chain i have the same name
DistinctNames(i) ==
    \A j, k \in 1..ChainSize(i) : j # k => Chains[i].name[j] # Chains[i].name[k]

\* the first chain has several nodes with distinct names and is the only
\* chain that adds to the first, middle and final sets
OneLongerChain == ~SingleNode(1) /\ DistinctNames(1) /\ SingleNode(2)

\* the nodes of the chains of more than one node that are named p
NodesNamed(p) ==
    {ik \in ChainIds \X (1..MaxNodes) :
        /\ ~SingleNode(ik[1])
        /\ ik[2] <= ChainSize(ik[1])
        /\ Chains[ik[1]].name[ik[2]] = p}

\* the names that are in two of the three role sets
InTwoRoleSets ==
    (fields.first_evolutions.value \cap fields.middle_evolutions.value)
    \cup (fields.first_evolutions.value \cap fields.final_evolutions.value)
    \cup (fields.middle_evolutions.value \cap fields.final_evolutions.value)

\* C25: what one chain of more than one node with pairwise distinct names
\* adds to the first, middle and final sets is pairwise disjoint and together
\* every node of the chain; first is the root alone and final is exactly the
\* leaves; a name is in two role sets only if two nodes carry it
C25_RolesPartitionTheChain ==
    RolesCached =>
        /\ OneLongerChain =>
              /\ InTwoRoleSets = {}
              /\ fields.first_evolutions.value \cup fields.middle_evolutions.value
                    \cup fields.final_evolutions.value = NodeNames(1, AnyNode)
              /\ fields.first_evolutions.value = {Chains[1].name[1]}
              /\ fields.final_evolutions.value = NodeNames(1, IsLeaf)
        /\ \A p \in InTwoRoleSets : Cardinality(NodesNamed(p)) >= 2

\* the chain a -> b -> c beside a single species, classified: a is first,
\* b is middle, c is final
C25_Witness ==
    /\ RolesCached
    /\ OneLongerChain
    /\ Chains[1].parent = <<0, 1, 2>>
    /\ fields.first_evolutions.value = {Chains[1].name[1]}
    /\ fields.middle_evolutions.value = {Chains[1].name[2]}
    /\ fields.final_evolutions.value = {Chains[1].name[3]}

\* a name that labels two nodes of a chain is in two role sets
NameInTwoRoleSets == RolesCached /\ InTwoRoleSets # {}

====
